---- MODULE Spec2Model ----
(***************************************************************************)
(* Model of breaker.go: a circuit breaker with a counting semaphore (a     *)
(* buffered channel of tokens), a per-command timeout race, a background   *)
(* healthcheck goroutine and a Shutdown call.                              *)
(*                                                                         *)
(* Every goroutine the package starts is a process of the model.  A step   *)
(* holds at most one access to state that another goroutine reads or       *)
(* writes (the semaphore, isOk, isShutdown, status, done, the timer's       *)
(* channel), together with the goroutine-local code next to it; each       *)
(* client callback of the rejection and timeout branches is a step of its  *)
(* own.  Time is abstracted: a timer that is armed may fire at any later    *)
(* moment, a sleep may end at any moment.  In Spec client callbacks return  *)
(* normally, except that CommandFunc may run forever; PanicSpec adds the   *)
(* callbacks that panic, DegradedSpec starts from a breaker that an        *)
(* earlier rejection has marked.                                           *)
(***************************************************************************)
EXTENDS Integers, Sequences, FiniteSets

\* Number of Execute calls the clients make.
NumCalls == 2
\* Number of Shutdown calls the client makes.
NumShutdowns == 2
\* New is called with numConcurrent in 1..MaxConcurrent.
MaxConcurrent == 2

Calls == 1..NumCalls

\* breaker.go:65-69; a Breaker's status field starts at Go's zero value.
iShutdown == 10
iCircuitStillBad == 20
iCircuitGood == 30
iZero == 0

VARIABLES
    numConcurrent,  \* Breaker.numConcurrent, capacity of the semaphore channel
    semaphore,      \* Breaker.semaphore: number of tokens buffered in the channel
    isOk,           \* Breaker.isOk
    isShutdown,     \* Breaker.isShutdown
    status,         \* Breaker.status
    hc,             \* position of the healthcheck goroutine
    sd,             \* position of the client's current Shutdown call
    sdCalls,        \* number of Shutdown calls begun
    pc,             \* position of each Execute call and of the goroutines it starts
    cmd,            \* state of the goroutine that runs CommandFunc (lines 135-138)
    timer,          \* TRUE when the channel of time.After holds a value
    errorch,        \* the result channel of each call: the values sent on it
    \* history, read by the properties only
    callLog,        \* the client callbacks invoked for each call, in order
    path,           \* the branch each call took
    first,          \* which of {CommandFunc returned, timer fired} came first
    tokens,         \* tokens sent minus tokens received by each call
    hcTokens,       \* tokens sent minus tokens received by healthcheck
    attempts,       \* reservation attempts made by each call
    late,           \* call began after some Shutdown call had returned
    fault           \* the callback that panicked, and whether the process has died

vars == <<numConcurrent, semaphore, isOk, isShutdown, status, hc, sd, pc, cmd,
          timer, errorch, callLog, path, first, tokens, hcTokens, attempts,
          late, sdCalls, fault>>

\* type Error struct (lines 171-176); Err is the message of the wrapped error.
Error(err, isTimeout_, isShutdown_, isSuccess_) ==
    [Err |-> err, isTimeout |-> isTimeout_, isShutdown |-> isShutdown_,
     isSuccess |-> isSuccess_]

\* The accessors of Error (lines 180-182).
ErrorTimeout(b) == b.isTimeout
ErrorSuccess(b) == b.isSuccess
ErrorShutdown(b) == b.isShutdown

\* The four Error values Execute builds (lines 123, 147, 150, 157).  Fields a
\* composite literal does not name take Go's zero value, false.
ShutdownError ==
    Error("circuit has been permanently shutdown. create a new one",
          FALSE, FALSE, FALSE)
TimeoutError == Error("task timed out", TRUE, FALSE, FALSE)
SuccessError == Error("nil", FALSE, FALSE, TRUE)
RejectedError ==
    Error("reached threshold, cannot run your command", FALSE, FALSE, FALSE)

\* A channel that takes every send.
CanSendMutant(n, c) == TRUE

\* A send on a buffered channel that holds n values and has capacity c proceeds
\* iff n < c; a receive proceeds iff n > 0.
CanSend(n, c) == n < c
CanRecv(n) == n > 0

\* No callback has panicked.
NoFault == [call |-> 0, func |-> "none", crashed |-> FALSE]

\* errorch is make(chan Error, 1): a send proceeds while the buffer is empty.
ErrorchCap == 1

\* New (lines 43-55): the fields of the breaker apart from isOk and status, the
\* healthcheck goroutine at the top of its loop, and no client call made yet.
InitRest ==
    /\ numConcurrent \in 1..MaxConcurrent
    /\ semaphore = 0
    /\ isShutdown = FALSE
    /\ hc = "top"
    /\ sd = "idle"
    /\ sdCalls = 0
    /\ pc = [c \in Calls |-> "idle"]
    /\ cmd = [c \in Calls |-> "none"]
    /\ timer = [c \in Calls |-> FALSE]
    /\ errorch = [c \in Calls |-> <<>>]
    /\ callLog = [c \in Calls |-> <<>>]
    /\ path = [c \in Calls |-> "none"]
    /\ first = [c \in Calls |-> "none"]
    /\ tokens = [c \in Calls |-> 0]
    /\ hcTokens = 0
    /\ attempts = [c \in Calls |-> 0]
    /\ late = [c \in Calls |-> FALSE]
    /\ fault = NoFault

Init ==
    /\ isOk = TRUE
    /\ status = iZero
    /\ InitRest

\* A breaker that earlier calls, all of them over, have left marked: isOk and
\* status as openCircuit writes them, every slot free, healthcheck at the top of
\* its loop.  The calls of the model are the ones made from then on.
DegradedInit ==
    /\ isOk = FALSE
    /\ status = iCircuitStillBad
    /\ InitRest

\* Some Shutdown call has returned.
ShutdownReturned == sdCalls > 1 \/ (sdCalls = 1 /\ sd = "idle")

breakerVars == <<numConcurrent, semaphore, isOk, isShutdown, status>>
hcVars == <<hc, hcTokens>>
sdVars == <<sd, sdCalls>>
callVars == <<pc, cmd, timer, errorch, callLog, path, first, tokens, attempts, late>>

(***************************************************************************)
(* Execute (lines 120-161)                                                 *)
(***************************************************************************)

\* Execute without the test of line 122.
ExecuteMutant(c) ==
    /\ pc[c] = "idle"
    /\ c > 1 => pc[c - 1] # "idle"
    /\ late' = [late EXCEPT ![c] = ShutdownReturned]
    /\ pc' = [pc EXCEPT ![c] = "select"]
    /\ UNCHANGED <<fault, breakerVars, hcVars, sdVars, cmd, timer, errorch, callLog,
                   path, first, tokens, attempts>>

\* Lines 121-127 and 160, the part of Execute that runs in the caller: with the
\* flag set the result is sent and the call is over, otherwise the goroutine of
\* line 127 is started.  Calls are numbered in the order they are made.
Execute(c) ==
    /\ pc[c] = "idle"
    /\ c > 1 => pc[c - 1] # "idle"
    /\ late' = [late EXCEPT ![c] = ShutdownReturned]
    /\ IF isShutdown
         THEN /\ CanSend(Len(errorch[c]), ErrorchCap)
              /\ errorch' = [errorch EXCEPT ![c] = Append(@, ShutdownError)]
              /\ path' = [path EXCEPT ![c] = "shutdown"]
              /\ pc' = [pc EXCEPT ![c] = "done"]
         ELSE /\ pc' = [pc EXCEPT ![c] = "select"]
              /\ UNCHANGED <<errorch, path>>
    /\ UNCHANGED <<fault, breakerVars, hcVars, sdVars, cmd, timer, callLog, first,
                   tokens, attempts>>

\* An admission that also consults isOk.
ReserveMutant(c) ==
    /\ pc[c] = "select"
    /\ attempts' = [attempts EXCEPT ![c] = @ + 1]
    /\ IF CanSend(semaphore, numConcurrent) /\ isOk
         THEN /\ semaphore' = semaphore + 1
              /\ tokens' = [tokens EXCEPT ![c] = @ + 1]
              /\ path' = [path EXCEPT ![c] = "admitted"]
              /\ cmd' = [cmd EXCEPT ![c] = "running"]
              /\ callLog' = [callLog EXCEPT ![c] = Append(@, "CommandFunc")]
              /\ pc' = [pc EXCEPT ![c] = "race"]
         ELSE /\ path' = [path EXCEPT ![c] = "denied"]
              /\ pc' = [pc EXCEPT ![c] = "rejDefault"]
              /\ UNCHANGED <<semaphore, tokens, cmd, callLog>>
    /\ UNCHANGED <<fault, numConcurrent, isOk, isShutdown, status, hcVars,
                   sdVars, timer, errorch, first, late>>

\* Lines 128-138 and 153: the select on the semaphore.  With room in the channel
\* a token is sent, the goroutine of line 130 starts the goroutine that runs
\* CommandFunc and arms the timer (line 141); otherwise the default case is taken.
Reserve(c) ==
    /\ pc[c] = "select"
    /\ attempts' = [attempts EXCEPT ![c] = @ + 1]
    /\ IF CanSend(semaphore, numConcurrent)
         THEN /\ semaphore' = semaphore + 1
              /\ tokens' = [tokens EXCEPT ![c] = @ + 1]
              /\ path' = [path EXCEPT ![c] = "admitted"]
              /\ cmd' = [cmd EXCEPT ![c] = "running"]
              /\ callLog' = [callLog EXCEPT ![c] = Append(@, "CommandFunc")]
              /\ pc' = [pc EXCEPT ![c] = "race"]
         ELSE /\ path' = [path EXCEPT ![c] = "denied"]
              /\ pc' = [pc EXCEPT ![c] = "rejDefault"]
              /\ UNCHANGED <<semaphore, tokens, cmd, callLog>>
    /\ UNCHANGED <<fault, numConcurrent, isOk, isShutdown, status, hcVars, sdVars,
                   timer, errorch, first, late>>

\* Line 154: commands.DefaultFunc() of the default case.
RejDefault(c) ==
    /\ pc[c] = "rejDefault"
    /\ callLog' = [callLog EXCEPT ![c] = Append(@, "DefaultFunc")]
    /\ pc' = [pc EXCEPT ![c] = "rejCleanup"]
    /\ UNCHANGED <<fault, breakerVars, hcVars, sdVars, cmd, timer, errorch, path,
                   first, tokens, attempts, late>>

\* Line 155: commands.CleanupFunc() of the default case.
RejCleanup(c) ==
    /\ pc[c] = "rejCleanup"
    /\ callLog' = [callLog EXCEPT ![c] = Append(@, "CleanupFunc")]
    /\ pc' = [pc EXCEPT ![c] = "rejOpen"]
    /\ UNCHANGED <<fault, breakerVars, hcVars, sdVars, cmd, timer, errorch, path,
                   first, tokens, attempts, late>>

\* openCircuit with the assignment of closeCircuit.
OpenCircuitIsOkMutant(c) ==
    /\ pc[c] = "rejOpen"
    /\ isOk' = TRUE
    /\ pc' = [pc EXCEPT ![c] = "rejStatus"]
    /\ UNCHANGED <<fault, numConcurrent, semaphore, isShutdown, status, hcVars,
                   sdVars, cmd, timer, errorch, callLog, path, first, tokens,
                   attempts, late>>

\* Line 156 -> line 95: openCircuit writes isOk.
OpenCircuitIsOk(c) ==
    /\ pc[c] = "rejOpen"
    /\ isOk' = FALSE
    /\ pc' = [pc EXCEPT ![c] = "rejStatus"]
    /\ UNCHANGED <<fault, numConcurrent, semaphore, isShutdown, status, hcVars,
                   sdVars, cmd, timer, errorch, callLog, path, first, tokens,
                   attempts, late>>

\* Line 96: openCircuit writes status.
OpenCircuitStatus(c) ==
    /\ pc[c] = "rejStatus"
    /\ status' = iCircuitStillBad
    /\ pc' = [pc EXCEPT ![c] = "rejSend"]
    /\ UNCHANGED <<fault, numConcurrent, semaphore, isOk, isShutdown, hcVars, sdVars,
                   cmd, timer, errorch, callLog, path, first, tokens, attempts,
                   late>>

\* The denied call goes on to the deferred receive of line 132.
RejSendMutant(c) ==
    /\ pc[c] = "rejSend"
    /\ CanSend(Len(errorch[c]), ErrorchCap)
    /\ errorch' = [errorch EXCEPT ![c] = Append(@, RejectedError)]
    /\ pc' = [pc EXCEPT ![c] = "release"]
    /\ UNCHANGED <<fault, breakerVars, hcVars, sdVars, cmd, timer, callLog, path,
                   first, tokens, attempts, late>>

\* Line 157: the result of a denied call is sent.
RejSend(c) ==
    /\ pc[c] = "rejSend"
    /\ CanSend(Len(errorch[c]), ErrorchCap)
    /\ errorch' = [errorch EXCEPT ![c] = Append(@, RejectedError)]
    /\ pc' = [pc EXCEPT ![c] = "done"]
    /\ UNCHANGED <<fault, breakerVars, hcVars, sdVars, cmd, timer, callLog, path,
                   first, tokens, attempts, late>>

\* Lines 136-137: CommandFunc returns and the deferred done <- true runs; done
\* has room for one value and this is the only send on it, so it never blocks.
\* Nothing interrupts CommandFunc: it may return while the race is on or after
\* the race was lost to the timer.
CommandReturn(c) ==
    /\ cmd[c] = "running"
    /\ cmd' = [cmd EXCEPT ![c] = "signalled"]
    /\ first' = [first EXCEPT ![c] = IF @ = "none" THEN "cmd" ELSE @]
    /\ UNCHANGED <<fault, breakerVars, hcVars, sdVars, pc, timer, errorch, callLog,
                   path, tokens, attempts, late>>

\* The timer of line 141 fires: its channel receives a value.  A timer whose
\* race is over is read by nobody and is left out.
TimerFire(c) ==
    /\ pc[c] = "race"
    /\ ~timer[c]
    /\ timer' = [timer EXCEPT ![c] = TRUE]
    /\ first' = [first EXCEPT ![c] = IF @ = "none" THEN "timer" ELSE @]
    /\ UNCHANGED <<fault, breakerVars, hcVars, sdVars, pc, cmd, errorch, callLog,
                   path, tokens, attempts, late>>

\* Lines 140-141: the select takes the timer's case.  A select with several
\* cases ready takes any one of them.
RaceTimeout(c) ==
    /\ pc[c] = "race"
    /\ timer[c]
    /\ path' = [path EXCEPT ![c] = "timeout"]
    /\ pc' = [pc EXCEPT ![c] = "toDefault"]
    /\ UNCHANGED <<fault, breakerVars, hcVars, sdVars, cmd, timer, errorch, callLog,
                   first, tokens, attempts, late>>

\* Lines 140, 149: the select takes the case of done.
RaceDone(c) ==
    /\ pc[c] = "race"
    /\ cmd[c] = "signalled"
    /\ path' = [path EXCEPT ![c] = "success"]
    /\ pc' = [pc EXCEPT ![c] = "succSend"]
    /\ UNCHANGED <<fault, breakerVars, hcVars, sdVars, cmd, timer, errorch, callLog,
                   first, tokens, attempts, late>>

\* CleanupFunc is called where DefaultFunc should be.
ToDefaultMutant(c) ==
    /\ pc[c] = "toDefault"
    /\ callLog' = [callLog EXCEPT ![c] = Append(@, "CleanupFunc")]
    /\ pc' = [pc EXCEPT ![c] = "toCleanup"]
    /\ UNCHANGED <<fault, breakerVars, hcVars, sdVars, cmd, timer, errorch, path,
                   first, tokens, attempts, late>>

\* Line 143: commands.DefaultFunc() after a timeout.
ToDefault(c) ==
    /\ pc[c] = "toDefault"
    /\ callLog' = [callLog EXCEPT ![c] = Append(@, "DefaultFunc")]
    /\ pc' = [pc EXCEPT ![c] = "toCleanup"]
    /\ UNCHANGED <<fault, breakerVars, hcVars, sdVars, cmd, timer, errorch, path,
                   first, tokens, attempts, late>>

\* Line 144: commands.CleanupFunc() after a timeout.
ToCleanup(c) ==
    /\ pc[c] = "toCleanup"
    /\ callLog' = [callLog EXCEPT ![c] = Append(@, "CleanupFunc")]
    /\ pc' = [pc EXCEPT ![c] = "toSend"]
    /\ UNCHANGED <<fault, breakerVars, hcVars, sdVars, cmd, timer, errorch, path,
                   first, tokens, attempts, late>>

\* The timeout branch ends without its send.
ToSendMutant(c) ==
    /\ pc[c] = "toSend"
    /\ pc' = [pc EXCEPT ![c] = "release"]
    /\ UNCHANGED <<fault, breakerVars, hcVars, sdVars, cmd, timer, errorch, callLog,
                   path, first, tokens, attempts, late>>

\* Lines 147-148: the Timeout result is sent.
ToSend(c) ==
    /\ pc[c] = "toSend"
    /\ CanSend(Len(errorch[c]), ErrorchCap)
    /\ errorch' = [errorch EXCEPT ![c] = Append(@, TimeoutError)]
    /\ pc' = [pc EXCEPT ![c] = "release"]
    /\ UNCHANGED <<fault, breakerVars, hcVars, sdVars, cmd, timer, callLog, path,
                   first, tokens, attempts, late>>

\* The case of done sends the Error of the timeout branch.
SuccSendMutant(c) ==
    /\ pc[c] = "succSend"
    /\ CanSend(Len(errorch[c]), ErrorchCap)
    /\ errorch' = [errorch EXCEPT ![c] = Append(@, TimeoutError)]
    /\ pc' = [pc EXCEPT ![c] = "release"]
    /\ UNCHANGED <<fault, breakerVars, hcVars, sdVars, cmd, timer, callLog, path,
                   first, tokens, attempts, late>>

\* Line 150: the Success result is sent.
SuccSend(c) ==
    /\ pc[c] = "succSend"
    /\ CanSend(Len(errorch[c]), ErrorchCap)
    /\ errorch' = [errorch EXCEPT ![c] = Append(@, SuccessError)]
    /\ pc' = [pc EXCEPT ![c] = "release"]
    /\ UNCHANGED <<fault, breakerVars, hcVars, sdVars, cmd, timer, callLog, path,
                   first, tokens, attempts, late>>

\* Line 132: the deferred <-b.semaphore runs when the goroutine of line 130
\* returns, which is after either case of the select of line 140.
Release(c) ==
    /\ pc[c] = "release"
    /\ CanRecv(semaphore)
    /\ semaphore' = semaphore - 1
    /\ tokens' = [tokens EXCEPT ![c] = @ - 1]
    /\ pc' = [pc EXCEPT ![c] = "done"]
    /\ UNCHANGED <<fault, numConcurrent, isOk, isShutdown, status, hcVars, sdVars,
                   cmd, timer, errorch, callLog, path, first, attempts, late>>

(***************************************************************************)
(* healthcheck (lines 71-92), the goroutine New starts                     *)
(***************************************************************************)

\* A loop without the test of line 73.
HcCheckShutdownMutant ==
    /\ hc = "top"
    /\ hc' = "woke"
    /\ UNCHANGED <<fault, breakerVars, hcTokens, sdVars, callVars>>

\* Lines 73-76: the loop reads isShutdown and returns, or sleeps.
HcCheckShutdown ==
    /\ hc = "top"
    /\ hc' = IF isShutdown THEN "stopped" ELSE "woke"
    /\ UNCHANGED <<fault, breakerVars, hcTokens, sdVars, callVars>>

\* Line 77: after the sleep, isOk is read.
HcCheckIsOk ==
    /\ hc = "woke"
    /\ hc' = IF ~isOk THEN "select" ELSE "top"
    /\ UNCHANGED <<fault, breakerVars, hcTokens, sdVars, callVars>>

\* A healthcheck whose select always takes the default case.
HcSelectMutant ==
    /\ hc = "select"
    /\ status' = iCircuitStillBad
    /\ hc' = "top"
    /\ UNCHANGED <<fault, semaphore, hcTokens, numConcurrent, isOk, isShutdown,
                   sdVars, callVars>>

\* Lines 78-79 and 85-88: the trial send on the semaphore; the default case
\* writes status and ends the tick.
HcSelect ==
    /\ hc = "select"
    /\ IF CanSend(semaphore, numConcurrent)
         THEN /\ semaphore' = semaphore + 1
              /\ hcTokens' = hcTokens + 1
              /\ hc' = "recv"
              /\ UNCHANGED status
         ELSE /\ status' = iCircuitStillBad
              /\ hc' = "top"
              /\ UNCHANGED <<semaphore, hcTokens>>
    /\ UNCHANGED <<fault, numConcurrent, isOk, isShutdown, sdVars, callVars>>

\* Line 80: the trial token is received back.
HcRecv ==
    /\ hc = "recv"
    /\ CanRecv(semaphore)
    /\ semaphore' = semaphore - 1
    /\ hcTokens' = hcTokens - 1
    /\ hc' = "closeIsOk"
    /\ UNCHANGED <<fault, numConcurrent, isOk, isShutdown, status, sdVars, callVars>>

\* Line 81 -> line 101: closeCircuit writes isOk.
CloseCircuitIsOk ==
    /\ hc = "closeIsOk"
    /\ isOk' = TRUE
    /\ hc' = "closeStatus"
    /\ UNCHANGED <<fault, numConcurrent, semaphore, isShutdown, status, hcTokens,
                   sdVars, callVars>>

\* Line 102: closeCircuit writes status.
CloseCircuitStatus ==
    /\ hc = "closeStatus"
    /\ status' = iCircuitGood
    /\ hc' = "setGood"
    /\ UNCHANGED <<fault, numConcurrent, semaphore, isOk, isShutdown, hcTokens,
                   sdVars, callVars>>

\* Line 84: healthcheck writes status once more and the tick ends.
HcStatusGood ==
    /\ hc = "setGood"
    /\ status' = iCircuitGood
    /\ hc' = "top"
    /\ UNCHANGED <<fault, numConcurrent, semaphore, isOk, isShutdown, hcTokens,
                   sdVars, callVars>>

(***************************************************************************)
(* Shutdown (lines 109-117)                                                *)
(***************************************************************************)

\* Shutdown without the test of line 110.
ShutdownCheckMutant ==
    /\ sd = "idle"
    /\ sdCalls < NumShutdowns
    /\ sdCalls' = sdCalls + 1
    /\ sd' = "lock"
    /\ UNCHANGED <<fault, breakerVars, hcVars, callVars>>

\* Lines 110-112: a call that reads the flag set returns at once.  The client
\* makes its Shutdown calls one after another, NumShutdowns of them at most.
ShutdownCheck ==
    /\ sd = "idle"
    /\ sdCalls < NumShutdowns
    /\ sdCalls' = sdCalls + 1
    /\ sd' = IF isShutdown THEN "idle" ELSE "lock"
    /\ UNCHANGED <<fault, breakerVars, hcVars, callVars>>

\* Lines 113-115: the flag is written under the package's mutex; the critical
\* section is this one write.
ShutdownSet ==
    /\ sd = "lock"
    /\ isShutdown' = TRUE
    /\ sd' = "status"
    /\ UNCHANGED <<fault, numConcurrent, semaphore, isOk, status, hcVars, callVars,
                   sdCalls>>

\* Line 116: status is written and the call returns.
ShutdownStatus ==
    /\ sd = "status"
    /\ status' = iShutdown
    /\ sd' = "idle"
    /\ UNCHANGED <<fault, numConcurrent, semaphore, isOk, isShutdown, hcVars,
                   callVars, sdCalls>>

(***************************************************************************)
(* The specification                                                       *)
(***************************************************************************)

CallStep(c) ==
    \/ Execute(c)
    \/ Reserve(c)
    \/ RejDefault(c)
    \/ RejCleanup(c)
    \/ OpenCircuitIsOk(c)
    \/ OpenCircuitStatus(c)
    \/ RejSend(c)
    \/ CommandReturn(c)
    \/ TimerFire(c)
    \/ RaceTimeout(c)
    \/ RaceDone(c)
    \/ ToDefault(c)
    \/ ToCleanup(c)
    \/ ToSend(c)
    \/ SuccSend(c)
    \/ Release(c)

healthcheck ==
    \/ HcCheckShutdown
    \/ HcCheckIsOk
    \/ HcSelect
    \/ HcRecv
    \/ CloseCircuitIsOk
    \/ CloseCircuitStatus
    \/ HcStatusGood

Shutdown ==
    \/ ShutdownCheck
    \/ ShutdownSet
    \/ ShutdownStatus

Next ==
    \/ \E c \in Calls : CallStep(c)
    \/ healthcheck
    \/ Shutdown

Spec == Init /\ [][Next]_vars

\* The goroutines the package starts are scheduled fairly, a timer that is armed
\* fires, DefaultFunc and CleanupFunc return.  Nothing makes CommandFunc return,
\* a client call happen or the sleep of healthcheck end.
RunnerStep(c) ==
    \/ Reserve(c)
    \/ RejDefault(c)
    \/ RejCleanup(c)
    \/ OpenCircuitIsOk(c)
    \/ OpenCircuitStatus(c)
    \/ RejSend(c)
    \/ RaceTimeout(c)
    \/ RaceDone(c)
    \/ ToDefault(c)
    \/ ToCleanup(c)
    \/ ToSend(c)
    \/ SuccSend(c)
    \/ Release(c)

FairSpec ==
    /\ Spec
    /\ \A c \in Calls :
         /\ WF_vars(RunnerStep(c))
         /\ WF_vars(TimerFire(c))

\* The package from a breaker that is marked Degraded.
DegradedSpec == DegradedInit /\ [][Next]_vars

\* The healthcheck goroutine is scheduled and its sleep ends.
ProberFairSpec == Spec /\ WF_vars(healthcheck)

(***************************************************************************)
(* Callbacks that panic.  No goroutine of the package recovers, so a panic *)
(* runs the deferred calls of its goroutine and then ends the process; the *)
(* other goroutines run on until it has.  One panic is followed.           *)
(***************************************************************************)

Panicked(c, f) == [call |-> c, func |-> f, crashed |-> FALSE]

\* Line 137: CommandFunc panics; the deferred done <- true of line 136 runs.
CommandPanic(c) ==
    /\ fault = NoFault
    /\ cmd[c] = "running"
    /\ cmd' = [cmd EXCEPT ![c] = "signalled"]
    /\ fault' = Panicked(c, "CommandFunc")
    /\ UNCHANGED <<breakerVars, hcVars, sdVars, pc, timer, errorch, callLog,
                   path, first, tokens, attempts, late>>

\* A handler that recovers from the panic of DefaultFunc and goes on.
RejDefaultPanicMutant(c) ==
    /\ fault = NoFault
    /\ pc[c] = "rejDefault"
    /\ callLog' = [callLog EXCEPT ![c] = Append(@, "DefaultFunc")]
    /\ pc' = [pc EXCEPT ![c] = "rejCleanup"]
    /\ fault' = Panicked(c, "DefaultFunc")
    /\ UNCHANGED <<breakerVars, hcVars, sdVars, cmd, timer, errorch, path,
                   first, tokens, attempts, late>>

\* Line 154: DefaultFunc panics in the goroutine of line 127, which has no
\* deferred call.
RejDefaultPanic(c) ==
    /\ fault = NoFault
    /\ pc[c] = "rejDefault"
    /\ callLog' = [callLog EXCEPT ![c] = Append(@, "DefaultFunc")]
    /\ pc' = [pc EXCEPT ![c] = "panicked"]
    /\ fault' = Panicked(c, "DefaultFunc")
    /\ UNCHANGED <<breakerVars, hcVars, sdVars, cmd, timer, errorch, path,
                   first, tokens, attempts, late>>

\* Line 155: CleanupFunc panics in the goroutine of line 127.
RejCleanupPanic(c) ==
    /\ fault = NoFault
    /\ pc[c] = "rejCleanup"
    /\ callLog' = [callLog EXCEPT ![c] = Append(@, "CleanupFunc")]
    /\ pc' = [pc EXCEPT ![c] = "panicked"]
    /\ fault' = Panicked(c, "CleanupFunc")
    /\ UNCHANGED <<breakerVars, hcVars, sdVars, cmd, timer, errorch, path,
                   first, tokens, attempts, late>>

\* Line 143: DefaultFunc panics in the goroutine of line 130, whose deferred
\* receive of line 132 is then due.
ToDefaultPanic(c) ==
    /\ fault = NoFault
    /\ pc[c] = "toDefault"
    /\ callLog' = [callLog EXCEPT ![c] = Append(@, "DefaultFunc")]
    /\ pc' = [pc EXCEPT ![c] = "unwind"]
    /\ fault' = Panicked(c, "DefaultFunc")
    /\ UNCHANGED <<breakerVars, hcVars, sdVars, cmd, timer, errorch, path,
                   first, tokens, attempts, late>>

\* Line 144: CleanupFunc panics in the goroutine of line 130.
ToCleanupPanic(c) ==
    /\ fault = NoFault
    /\ pc[c] = "toCleanup"
    /\ callLog' = [callLog EXCEPT ![c] = Append(@, "CleanupFunc")]
    /\ pc' = [pc EXCEPT ![c] = "unwind"]
    /\ fault' = Panicked(c, "CleanupFunc")
    /\ UNCHANGED <<breakerVars, hcVars, sdVars, cmd, timer, errorch, path,
                   first, tokens, attempts, late>>

\* A goroutine whose receive is not deferred: the panic skips it.
UnwindMutant(c) ==
    /\ pc[c] = "unwind"
    /\ pc' = [pc EXCEPT ![c] = "panicked"]
    /\ UNCHANGED <<fault, breakerVars, hcVars, sdVars, cmd, timer, errorch,
                   callLog, path, first, tokens, attempts, late>>

\* Line 132: the deferred <-b.semaphore runs while the goroutine of line 130
\* panics.
Unwind(c) ==
    /\ pc[c] = "unwind"
    /\ CanRecv(semaphore)
    /\ semaphore' = semaphore - 1
    /\ tokens' = [tokens EXCEPT ![c] = @ - 1]
    /\ pc' = [pc EXCEPT ![c] = "panicked"]
    /\ UNCHANGED <<fault, numConcurrent, isOk, isShutdown, status, hcVars,
                   sdVars, cmd, timer, errorch, callLog, path, first, attempts,
                   late>>

\* The panic reaches the top of its goroutine and the process ends.
Crash ==
    /\ fault # NoFault
    /\ ~fault.crashed
    /\ pc[fault.call] # "unwind"
    /\ fault' = [fault EXCEPT !.crashed = TRUE]
    /\ UNCHANGED <<breakerVars, hcVars, sdVars, callVars>>

PanicStep(c) ==
    \/ CommandPanic(c)
    \/ RejDefaultPanic(c)
    \/ RejCleanupPanic(c)
    \/ ToDefaultPanic(c)
    \/ ToCleanupPanic(c)
    \/ Unwind(c)

\* Nothing runs once the process has ended.  A panic starts only while none
\* has (fault = NoFault) and Unwind comes before Crash, so the steps of
\* PanicStep need no such guard.
NextPanic ==
    \/ ~fault.crashed /\ Next
    \/ \E c \in Calls : PanicStep(c)
    \/ Crash

\* The package with callbacks that may panic.
PanicSpec == Init /\ [][NextPanic]_vars

(***************************************************************************)
(* Properties                                                              *)
(***************************************************************************)

RECURSIVE SumTokens(_)
SumTokens(S) ==
    IF S = {} THEN 0
    ELSE LET c == CHOOSE x \in S : TRUE IN tokens[c] + SumTokens(S \ {c})

\* Reservations outstanding: tokens sent and not yet received back.
Outstanding == SumTokens(Calls) + hcTokens

Admitted(c) == path[c] \in {"admitted", "timeout", "success"}
Delivered(c) == Len(errorch[c]) = 1
Result(c) == errorch[c][1]
Executing == {c \in Calls : cmd[c] = "running"}

\* C1: in every reachable state the number of outstanding reservations, which
\* is the number of tokens in the semaphore, is at least 0 and at most the
\* capacity.
C1_ReservedWithinCapacity ==
    /\ semaphore >= 0
    /\ semaphore <= numConcurrent
    /\ Outstanding = semaphore

\* A reservation is denied while every slot is taken.
C1_Witness ==
    \E c \in Calls : pc[c] = "rejDefault" /\ semaphore = numConcurrent

\* C2: at most numConcurrent CommandFunc invocations are executing at any
\* instant, also when some of them belong to calls that have timed out.
C2_AtMostCapacityExecuting == Cardinality(Executing) <= numConcurrent

\* C3: the reservation of a call that timed out stays held for as long as its
\* CommandFunc is running.
C3_HeldUntilCommandReturns ==
    \A c \in Calls : (path[c] = "timeout" /\ cmd[c] = "running") => tokens[c] = 1

\* C4: every Execute call sends exactly one result on its channel, never two and,
\* once the call is over, not zero, on every path and also while or after a
\* timed-out CommandFunc finishes in the background; and with DefaultFunc and
\* CleanupFunc returning, the result of every call that was made is eventually
\* sent, whether or not CommandFunc ever returns.
C4_ExactlyOneResult ==
    /\ [](\A c \in Calls :
            /\ Len(errorch[c]) <= 1
            /\ pc[c] \in {"release", "done"} => Delivered(c))
    /\ \A c \in Calls : (pc[c] # "idle") ~> Delivered(c)

\* The Timeout result of a call is on its channel while its CommandFunc has
\* not returned.
C4_Witness ==
    \E c \in Calls :
        /\ Delivered(c)
        /\ ErrorTimeout(Result(c))
        /\ cmd[c] = "running"

\* C5: a call whose reservation attempt is denied invokes DefaultFunc and then
\* CleanupFunc, once each, never CommandFunc; it takes no token out of the
\* semaphore and puts none in; its result is neither Success nor Timeout.
C5_DeniedPath ==
    \A c \in Calls :
        path[c] = "denied" =>
            /\ pc[c] \in {"rejDefault", "rejCleanup", "rejOpen", "rejStatus",
                          "rejSend", "done"}
            /\ pc[c] = "rejDefault" => callLog[c] = <<>>
            /\ pc[c] = "rejCleanup" => callLog[c] = <<"DefaultFunc">>
            /\ pc[c] \notin {"rejDefault", "rejCleanup"} =>
                   callLog[c] = <<"DefaultFunc", "CleanupFunc">>
            /\ cmd[c] = "none"
            /\ tokens[c] = 0
            /\ pc[c] = "done" <=> Delivered(c)
            /\ Delivered(c) =>
                   ~ErrorSuccess(Result(c)) /\ ~ErrorTimeout(Result(c))

\* A denied call is over.
C5_Witness ==
    \E c \in Calls : path[c] = "denied" /\ pc[c] = "done"

\* C6: a call that begins after a Shutdown call has returned sends its result
\* without invoking any callback and without a reservation attempt, so without
\* touching the semaphore, also when a slot is free.
C6_AfterShutdown ==
    \A c \in Calls :
        late[c] =>
            /\ pc[c] = "done"
            /\ path[c] = "shutdown"
            /\ Delivered(c)
            /\ callLog[c] = <<>>
            /\ cmd[c] = "none"
            /\ attempts[c] = 0
            /\ tokens[c] = 0

\* A call made after Shutdown returned, with a slot free.
C6_Witness ==
    \E c \in Calls : late[c] /\ pc[c] = "done" /\ semaphore < numConcurrent

\* C7: the result of a call made after Shutdown returned carries the Shutdown
\* tag, which tells it from a Rejected result.
C7_ShutdownTag ==
    \A c \in Calls :
        (late[c] /\ Delivered(c)) =>
            /\ ErrorShutdown(Result(c))
            /\ <<ErrorTimeout(Result(c)), ErrorSuccess(Result(c)),
                 ErrorShutdown(Result(c))>>
               # <<ErrorTimeout(RejectedError), ErrorSuccess(RejectedError),
                   ErrorShutdown(RejectedError)>>

TimeoutView(c) == <<pc[c], callLog[c], errorch[c], tokens[c]>>

LaterShutdownStep == sdCalls' >= 2 /\ <<sd, sdCalls>>' # <<sd, sdCalls>>

\* C10: no step sets isShutdown back to false, and a second or later Shutdown
\* call returns at once and changes no field of the breaker.
C10_ShutdownMonotonic ==
    [][/\ isShutdown => isShutdown'
       /\ LaterShutdownStep => (sd' = "idle" /\ UNCHANGED breakerVars)]_vars

\* A second Shutdown call has returned while status is no longer iShutdown.
C10_Witness ==
    /\ sdCalls >= 2
    /\ sd = "idle"
    /\ isShutdown
    /\ status # iShutdown

\* C11: once status is iShutdown no step changes it: it never again becomes
\* iCircuitGood or iCircuitStillBad, whatever healthcheck or a call that was
\* made before Shutdown is doing.
C11_ShutdownStatusTerminal ==
    [][status = iShutdown => status' = iShutdown]_vars

\* C12: when the CommandFunc of an admitted call has panicked and the process
\* has ended, DefaultFunc and then CleanupFunc were invoked for that call.
C12_DefaultAndCleanupAfterCommandPanic ==
    \A c \in Calls :
        (fault.call = c /\ fault.func = "CommandFunc" /\ fault.crashed) =>
            callLog[c] = <<"CommandFunc", "DefaultFunc", "CleanupFunc">>

\* C13: when DefaultFunc has panicked, on the rejection path or on the timeout
\* path, CleanupFunc is never invoked for that call and no result is sent on
\* its channel; the goroutine never resumes, the panic goes up.
C13_DefaultPanicSkipsCleanup ==
    \A c \in Calls :
        (fault.call = c /\ fault.func = "DefaultFunc") =>
            /\ pc[c] \in {"unwind", "panicked"}
            /\ errorch[c] = <<>>
            /\ \A i \in 1..Len(callLog[c]) : callLog[c][i] # "CleanupFunc"
            /\ callLog[c][Len(callLog[c])] = "DefaultFunc"

\* DefaultFunc panicked on the timeout path and the process has ended.
C13_Witness ==
    /\ fault.func = "DefaultFunc"
    /\ fault.crashed
    /\ path[fault.call] = "timeout"

\* C20: a call holds one token from its admission until the goroutine of
\* line 130 ends, by the success branch, by the timeout branch or by a panic
\* of DefaultFunc or CleanupFunc, and none before or after; so with every
\* admitted call finished and healthcheck between two ticks the semaphore is
\* empty.
C20_ReleasedExactlyOnce ==
    /\ \A c \in Calls :
           tokens[c] = (IF Admitted(c) /\ pc[c] \notin {"done", "panicked"}
                          THEN 1 ELSE 0)
    /\ ( /\ \A c \in Calls : Admitted(c) => pc[c] \in {"done", "panicked"}
         /\ hc \in {"top", "woke", "stopped"} )
       => semaphore = 0

\* CleanupFunc panicked on the timeout path, the token went back and the
\* process has ended.
C20_Witness ==
    /\ fault.func = "CleanupFunc"
    /\ fault.crashed
    /\ path[fault.call] = "timeout"
    /\ pc[fault.call] = "panicked"
    /\ semaphore = 0

\* Call c has run the line of openCircuit that writes isOk.
WroteIsOk(c) == path[c] = "denied" /\ pc[c] \in {"rejStatus", "rejSend", "done"}

\* C14: a denied call writes isOk = false and then status = iCircuitStillBad
\* after DefaultFunc and CleanupFunc have run and before its result is sent; and
\* isOk is false or status is iCircuitStillBad only after a denied call has
\* begun to mark the circuit.
C14_DenialMarksDegraded ==
    /\ [][\A c \in Calls :
            /\ (path[c] # "denied" /\ path'[c] = "denied") =>
                   pc'[c] = "rejDefault"
            /\ (pc[c] = "rejOpen" /\ pc'[c] # "rejOpen") =>
                   /\ callLog[c] = <<"DefaultFunc", "CleanupFunc">>
                   /\ isOk' = FALSE
                   /\ errorch'[c] = <<>>
                   /\ pc'[c] = "rejStatus"
            /\ (pc[c] = "rejStatus" /\ pc'[c] # "rejStatus") =>
                   /\ status' = iCircuitStillBad
                   /\ errorch'[c] = <<>>
                   /\ pc'[c] = "rejSend"
            /\ (path[c] = "denied" /\ errorch'[c] # errorch[c]) =>
                   pc[c] = "rejSend"]_vars
    /\ []((~isOk \/ status = iCircuitStillBad) => \E c \in Calls : WroteIsOk(c))

\* Every call is over, one of them denied, and the circuit is left marked with
\* all slots free, healthcheck asleep and no Shutdown call made.
C14_Witness ==
    /\ \E c \in Calls : path[c] = "denied"
    /\ \A c \in Calls : pc[c] = "done"
    /\ ~isOk
    /\ status = iCircuitStillBad
    /\ semaphore = 0
    /\ hc = "top"
    /\ ~isShutdown
    /\ sdCalls = 0

\* Tokens held by calls, healthcheck's trial token left out.
HeldByCalls == SumTokens(Calls)

C16_ProberTerminates ==
    /\ isShutdown ~> hc = "stopped"
    /\ [](hc = "stopped" => (hcTokens = 0 /\ ~ENABLED healthcheck))
    /\ [][hc = "stopped" => (hc' = "stopped" /\ hcTokens' = hcTokens)]_vars

\* healthcheck has returned after a Shutdown call.
C16_Witness ==
    /\ hc = "stopped"
    /\ isShutdown
    /\ sdCalls >= 1

\* C17: admission reads the shutdown flag and the semaphore and nothing else:
\* a call made with isShutdown false goes to its reservation attempt, and the
\* attempt admits the call and starts CommandFunc iff the semaphore has room,
\* whatever isOk and status are.
C17_AdmissionIgnoresStatus ==
    [][\A c \in Calls :
         /\ (pc[c] = "idle" /\ pc'[c] # "idle") =>
                IF isShutdown THEN path'[c] = "shutdown" ELSE pc'[c] = "select"
         /\ (pc[c] = "select" /\ pc'[c] # "select") =>
                IF semaphore < numConcurrent
                  THEN /\ path'[c] = "admitted"
                       /\ cmd'[c] = "running"
                       /\ tokens'[c] = 1
                  ELSE path'[c] = "denied"]_vars

\* A call is admitted and running on a breaker that has been marked Degraded
\* since before the call was made.
C17_Witness ==
    /\ \E c \in Calls : pc[c] = "race" /\ cmd[c] = "running"
    /\ \A c \in Calls : path[c] # "denied"
    /\ ~isOk
    /\ status = iCircuitStillBad
    /\ ~isShutdown

\* C18: with capacity 1 and the slot free, of two calls made one after the
\* other the first is the one admitted: it is never the first that is denied
\* while the second holds the slot.
C18_AdmissionFollowsSubmission ==
    (numConcurrent = 1 /\ \A c \in Calls : c > 2 => pc[c] = "idle") =>
        ~(path[1] = "denied" /\ Admitted(2))

\* C19: a reservation attempt is denied only when the calls hold every slot:
\* the trial token of healthcheck never makes an attempt fail.
C19_ProberNeverRejects ==
    [][\A c \in Calls :
         (pc[c] = "select" /\ pc'[c] = "rejDefault") =>
             HeldByCalls = numConcurrent]_vars

====
